---- MODULE Spec2Model ----
(***************************************************************************)
(* A model of the Pico decoder (src/src/model/pico.py): the process-wide   *)
(* rotary frequency table, model construction, and the forward pass with  *)
(* its KV cache.  Tensors are modelled along their sequence axis: a tensor *)
(* of shape (batch, seq_len, ...) is a sequence with one symbolic entry    *)
(* per token.  Per-token maps (projections, norms, SwiGLU, residual adds)  *)
(* are kept as the symbolic entry of their argument; attention keeps, for  *)
(* every query, the rotation it got and the (key, value) pairs it attends. *)
(***************************************************************************)
EXTENDS Integers, Sequences, FiniteSets, TLC

VARIABLES
    freqs_cis,     \* RoPE._freqs_cis, the class attribute shared by all instances
    setup_calls,   \* number of calls of RoPE._setup_freqs_cis so far
    models,        \* the configs of the Pico instances constructed so far
    first_init,    \* the config of the constructor that assigned the table first
    sess,          \* the caller's generation loop: model, tokens fed, cache held
    call,          \* the last constructor or forward call and what it returned
    threads,       \* concurrent construction: each thread's arguments and place in
                   \* RoPE.__init__
    first_test,    \* concurrent construction: the config of the constructor that
                   \* found the table unset first
    heap,          \* the tensors and caches a caller holds on to, by reference
    conv,          \* config and model conversion: the objects involved
    train          \* the training loop of train.py: its locals and what it has done

vars == <<freqs_cis, setup_calls, models, first_init, sess, call, threads, first_test,
          heap, conv, train>>

(***************************************************************************)
(* Bounds                                                                  *)
(***************************************************************************)
MaxModels == 2      \* models constructed in one process
MaxLen == 3         \* tokens fed to one model over a generation loop
MaxPast == 1        \* per-layer length of a cache the caller made up
MaxHeld == 2        \* caches a caller holds on to at a time
MaxSteps == 2       \* training_steps of a run
MaxAccum == 2       \* gradient_accumulation_steps of a run
MaxEvery == 2       \* save_every_n_steps and log_every_n_steps of a run
MaxBatches == 4     \* batches the training iterator has left

Tokens == {0, 1}

None == [none |-> TRUE]

Min(a, b) == IF a < b THEN a ELSE b

\* F applied to the value of x (x is evaluated once, as a Python local is).
Bind(x, F(_)) == CHOOSE y \in {F(v) : v \in {x}} : TRUE

(***************************************************************************)
(* Configurations (the fields of ModelConfig / PicoHFConfig the model      *)
(* reads).  The set holds a valid one, a valid one with another theta and  *)
(* a shorter max_seq_len, one with a non-integral head-group ratio, and    *)
(* one where attention_n_heads does not divide d_model.                    *)
(***************************************************************************)
Config(d, h, kv, msl, theta) ==
    [d_model |-> d, n_layers |-> 2, attention_n_heads |-> h,
     attention_n_kv_heads |-> kv, max_seq_len |-> msl,
     position_emb_theta |-> theta]

Configs ==
    { Config(8, 2, 1, MaxLen, 10000),
      Config(8, 2, 1, MaxLen - 1, 500),
      Config(8, 4, 3, MaxLen, 10000),
      Config(9, 2, 1, MaxLen, 10000) }

ValidConfig(config) ==
    /\ config.d_model % config.attention_n_heads = 0
    /\ config.attention_n_heads % config.attention_n_kv_heads = 0

(***************************************************************************)
(* RoPE                                                                    *)
(***************************************************************************)
\* _setup_freqs_cis: one row per position 0..seq_len-1, dim // 2 columns.
SetupFreqsCis(seq_len, theta, dim) ==
    [rows |-> [p \in 1..seq_len |-> [theta |-> theta, dim |-> dim, pos |-> p - 1]],
     half |-> dim \div 2]

\* fabric.to_device: the same values on the fabric's device (placement is not
\* modelled).
ToDevice(tensor) == tensor

RoPEDim(config) == config.d_model \div config.attention_n_heads

\* A constructor that sets the table whether or not one is installed.
RoPEInitAlways(table, config, fabric) ==
    SetupFreqsCis(config.max_seq_len, config.position_emb_theta, RoPEDim(config))

\* RoPE.__init__ run to completion by one thread: the new value of RoPE._freqs_cis.
RoPEInit(table, config, fabric) ==
    IF table = None
    THEN LET fresh == SetupFreqsCis(config.max_seq_len, config.position_emb_theta,
                                    RoPEDim(config))
         IN  IF fabric THEN ToDevice(fresh) ELSE fresh
    ELSE table

\* Whether RoPE.__init__ calls _setup_freqs_cis.
RoPEInitComputes(table) == table = None

\* A slice of the right length that restarts at row 0.
SliceFromZero(rows, start_pos, end_pos) ==
    SubSeq(rows, 1, Min(end_pos - start_pos, Len(rows)))

\* _freqs_cis[start_pos:end_pos], a Python slice: it is clamped to the table.
Slice(rows, start_pos, end_pos) ==
    SubSeq(rows, start_pos + 1, Min(end_pos, Len(rows)))

\* get_freqs_cis: the rows for positions start_pos..end_pos-1, or an error when the
\* slice does not have the shape of the input.
GetFreqsCis(table, seq_len, half_dim, start_pos, end_pos) ==
    LET rows == Slice(table.rows, start_pos, end_pos)
    IN  IF Len(rows) = seq_len /\ table.half = half_dim
        THEN [status |-> "ok", rows |-> rows]
        ELSE [status |-> "error"]

\* RoPE.forward on the queries and keys of seq_len new tokens: the row each new
\* token is rotated with.
RoPEForward(table, head_dim, seq_len, start_pos) ==
    IF head_dim % 2 # 0
    THEN [status |-> "error"]      \* reshape(..., -1, 2) of an odd head_dim
    ELSE GetFreqsCis(table, seq_len, head_dim \div 2, start_pos, start_pos + seq_len)

(***************************************************************************)
(* Attention                                                               *)
(***************************************************************************)
\* Attention.__init__: the fields forward reads.  The integer divisions raise
\* only on a zero divisor; nothing else is checked.
AttentionInit(config) ==
    IF config.attention_n_heads = 0 \/ config.attention_n_kv_heads = 0
    THEN [status |-> "error"]
    ELSE [status |-> "ok",
          n_heads |-> config.attention_n_heads,
          n_kv_heads |-> config.attention_n_kv_heads,
          head_dim |-> config.d_model \div config.attention_n_heads,
          n_rep |-> config.attention_n_heads \div config.attention_n_kv_heads]

Zero == "0.0"
NegInf == "-inf"

\* F.scaled_dot_product_attention(queries, keys, values, attn_mask, enable_gqa):
\* the shapes it accepts.  The mask broadcasts against (seq_len, key length).
SDPAShapesOk(self, seq_len, keys, values, mask) ==
    /\ Len(keys) = Len(values)
    /\ IF self.n_rep > 1
       THEN self.n_heads % self.n_kv_heads = 0     \* enable_gqa
       ELSE self.n_heads = self.n_kv_heads
    /\ \/ mask = None
       \/ /\ Len(mask) \in {1, seq_len}
          /\ \A i \in 1..Len(mask) : Len(mask[i]) \in {1, Len(keys)}

\* The additive bias of query i on key j.
Bias(mask, i, j) ==
    IF mask = None THEN Zero
    ELSE LET row == mask[IF Len(mask) = 1 THEN 1 ELSE i]
         IN  row[IF Len(row) = 1 THEN 1 ELSE j]

\* Softmax attention of each query over the keys whose bias is not -inf: the
\* (key, value) pairs it mixes, by key index.
SDPA(queries, keys, values, mask) ==
    [i \in 1..Len(queries) |->
        [q |-> queries[i],
         attended |-> [j \in {j \in 1..Len(keys) : Bias(mask, i, j) # NegInf} |->
                          <<keys[j], values[j]>>]]]

\* What forward returns as the layer's cache.
AttentionCached(use_cache, keys, values) ==
    IF use_cache THEN <<keys, values>> ELSE <<None, None>>

\* A concatenation that loses the cached entries.
AttentionConcatDropsPast(past, new) == new

\* The keys (values) forward attends over, given the cached and the new ones.
AttentionConcat(past, new) == past \o new

\* A start position that ignores the cache.
AttentionStartPosZero(past_key_values) == 0

AttentionStartPos(past_key_values) ==
    IF past_key_values # None THEN Len(past_key_values[1]) ELSE 0

\* The queries, keys and values of the new tokens after the rotation.
AttentionProject(idx, input, rows) ==
    [queries |-> [t \in 1..Len(input) |->
                     [proj |-> "q", layer |-> idx, x |-> input[t], rot |-> rows[t]]],
     keys |-> [t \in 1..Len(input) |->
                  [proj |-> "k", layer |-> idx, x |-> input[t], rot |-> rows[t]]],
     values |-> [t \in 1..Len(input) |-> [proj |-> "v", layer |-> idx, x |-> input[t]]]]

\* Attention.forward of layer idx; input has one entry per new token.
AttentionForward(self, idx, input, mask, past_key_values, use_cache, table) ==
    Bind(RoPEForward(table, self.head_dim, Len(input),
                     AttentionStartPos(past_key_values)), LAMBDA rope :
    IF rope.status # "ok"
    THEN [status |-> "error", start_pos |-> AttentionStartPos(past_key_values)]
    ELSE
    Bind(AttentionProject(idx, input, rope.rows), LAMBDA new :
    Bind(IF past_key_values # None
         THEN AttentionConcat(past_key_values[1], new.keys) ELSE new.keys, LAMBDA keys :
    Bind(IF past_key_values # None
         THEN AttentionConcat(past_key_values[2], new.values) ELSE new.values,
         LAMBDA values :
    IF ~SDPAShapesOk(self, Len(input), keys, values, mask)
    THEN [status |-> "error", start_pos |-> AttentionStartPos(past_key_values)]
    ELSE [status |-> "ok",
          start_pos |-> AttentionStartPos(past_key_values),
          output |-> SDPA(new.queries, keys, values, mask),
          cached |-> AttentionCached(use_cache, keys, values)]))))

(***************************************************************************)
(* PicoBlock                                                               *)
(***************************************************************************)
\* PicoBlock.forward: the residual stream entry of each token, and the cache the
\* attention returned, passed through.
PicoBlockForward(self, idx, input, mask, past_key_values, use_cache, table) ==
    Bind(AttentionForward(self, idx, input, mask, past_key_values, use_cache, table),
         LAMBDA a :
    IF a.status # "ok" THEN a
    ELSE [status |-> "ok",
          start_pos |-> a.start_pos,
          out |-> [t \in 1..Len(input) |-> [res |-> input[t], attn |-> a.output[t]]],
          cached |-> a.cached])

(***************************************************************************)
(* Pico                                                                    *)
(***************************************************************************)
\* Pico.__init__: one PicoBlock, hence one Attention, per layer.
PicoLayers(config) == [idx \in 1..config.n_layers |-> AttentionInit(config)]

PicoInitOk(config) == \A idx \in 1..config.n_layers : PicoLayers(config)[idx].status = "ok"

\* A construction that starts from an unset table whatever is installed.
PicoInitTableReset(table, config, fabric, n) ==
    IF n = 0 THEN table ELSE RoPEInit(None, config, fabric)

\* The table after the RoPE constructors of n layers have run one after another.
RECURSIVE PicoInitTable(_, _, _, _)
PicoInitTable(table, config, fabric, n) ==
    IF n = 0 THEN table
    ELSE PicoInitTable(RoPEInit(table, config, fabric), config, fabric, n - 1)

\* The number of _setup_freqs_cis calls these n constructors make.
RECURSIVE PicoInitSetups(_, _, _, _)
PicoInitSetups(table, config, fabric, n) ==
    IF n = 0 THEN 0
    ELSE (IF RoPEInitComputes(table) THEN 1 ELSE 0)
         + PicoInitSetups(RoPEInit(table, config, fabric), config, fabric, n - 1)

\* A mask whose diagonal is off by one: a token may attend to its successor.
TriuDiagonal2(seq_len) ==
    [i \in 1..seq_len |-> [j \in 1..seq_len |-> IF j - i >= 2 THEN NegInf ELSE Zero]]

\* torch.triu(torch.full((seq_len, seq_len), -inf), diagonal=1)
Triu(seq_len) ==
    [i \in 1..seq_len |-> [j \in 1..seq_len |-> IF j - i >= 1 THEN NegInf ELSE Zero]]

\* The zero columns put after the mask instead of before it.
HStackZerosRight(seq_len, start_pos, mask) ==
    [i \in 1..seq_len |-> mask[i] \o [j \in 1..start_pos |-> Zero]]

\* torch.hstack([torch.zeros((seq_len, start_pos)), mask])
HStackZeros(seq_len, start_pos, mask) ==
    [i \in 1..seq_len |-> [j \in 1..start_pos |-> Zero] \o mask[i]]

PicoStartPos(past_key_values) ==
    IF past_key_values = None THEN 0 ELSE Len(past_key_values[1][1])

PicoMask(seq_len, past_key_values) ==
    IF seq_len > 1
    THEN IF past_key_values # None
         THEN HStackZeros(seq_len, PicoStartPos(past_key_values), Triu(seq_len))
         ELSE Triu(seq_len)
    ELSE None

\* The loop over the layers from layer idx on.  acc collects cached_key_values and,
\* per layer done, what the layer returned as its cache and the start position it
\* rotated at.
RECURSIVE PicoRunLayers(_, _, _, _, _, _, _, _)
PicoRunLayers(layers, idx, h, mask, past_key_values, use_cache, table, acc) ==
    IF idx > Len(layers)
    THEN [status |-> "ok", h |-> h, cached_key_values |-> acc.cached_key_values,
          returned |-> acc.returned, layer_start_pos |-> acc.layer_start_pos]
    ELSE IF past_key_values # None /\ idx > Len(past_key_values)
    THEN [status |-> "error"]
    ELSE
    Bind(PicoBlockForward(layers[idx], idx, h, mask,
                          IF past_key_values # None THEN past_key_values[idx] ELSE None,
                          use_cache, table), LAMBDA r :
    IF r.status # "ok" THEN [status |-> "error"]
    ELSE
    Bind([cached_key_values |-> IF use_cache
                                THEN Append(acc.cached_key_values, r.cached)
                                ELSE acc.cached_key_values,
          returned |-> Append(acc.returned, r.cached),
          layer_start_pos |-> Append(acc.layer_start_pos, r.start_pos)], LAMBDA acc2 :
    PicoRunLayers(layers, idx + 1, r.out, mask, past_key_values, use_cache, table,
                  acc2)))

\* Pico.forward.  layer_returned and layer_start_pos record, per layer, the value of
\* layer_cached_key_values and the start position the layer's attention used.
PicoForward(config, input_ids, past_key_values, use_cache, table) ==
    IF past_key_values # None /\ Len(past_key_values) = 0
    THEN [status |-> "error"]
    ELSE
    Bind([t \in 1..Len(input_ids) |-> [emb |-> input_ids[t]]], LAMBDA h :
    Bind(PicoMask(Len(input_ids), past_key_values), LAMBDA mask :
    Bind(PicoRunLayers(PicoLayers(config), 1, h, mask, past_key_values, use_cache,
                       table,
                       [cached_key_values |-> IF use_cache THEN <<>> ELSE None,
                        returned |-> <<>>, layer_start_pos |-> <<>>]), LAMBDA r :
    IF r.status # "ok" THEN [status |-> "error"]
    ELSE [status |-> "ok",
          logits |-> r.h,
          cached_key_values |-> r.cached_key_values,
          start_pos |-> PicoStartPos(past_key_values),
          mask |-> mask,
          layer_returned |-> r.returned,
          layer_start_pos |-> r.layer_start_pos])))

(***************************************************************************)
(* PicoHF                                                                  *)
(***************************************************************************)
\* An output that always carries the cache field, None without use_cache.
PicoHFOutputWithPast(use_cache, logits, past_key_values) ==
    [logits |-> logits, past_key_values |-> past_key_values]

\* PicoHF.forward on the wrapper's Pico: the fields of the output object.
PicoHFOutput(use_cache, logits, past_key_values) ==
    IF use_cache
    THEN [logits |-> logits, past_key_values |-> past_key_values]
    ELSE [logits |-> logits]

PicoHFForward(config, input_ids, past_key_values, use_cache, table) ==
    Bind(PicoForward(config, input_ids, past_key_values, use_cache, table), LAMBDA r :
    IF r.status # "ok" THEN [status |-> "error"]
    ELSE [status |-> "ok",
          output |-> PicoHFOutput(use_cache, r.logits, r.cached_key_values)])

(***************************************************************************)
(* The callers: what they may pass                                         *)
(***************************************************************************)
TokenSeqs(n) == UNION {[1..k -> Tokens] : k \in 1..n}

\* The inputs of every length up to n that repeat token 0.
ZeroSeqs(n) == {[j \in 1..k |-> 0] : k \in 1..n}

\* A cache the caller made up: per layer, cached keys and values of some length.
CraftedLayer(idx, n) ==
    <<[j \in 1..n |-> [proj |-> "k", layer |-> idx, ext |-> j]],
      [j \in 1..n |-> [proj |-> "v", layer |-> idx, ext |-> j]]>>

CraftedCaches(config) ==
    {[idx \in 1..config.n_layers |-> CraftedLayer(idx, len[idx])] :
        len \in [1..config.n_layers -> 0..MaxPast]}

NoCall == [op |-> "none"]
NoSess == [m |-> None, fed |-> <<>>, cache |-> None]

Threads == {1, 2}

NoHeap == [tensor |-> <<>>, held |-> <<>>]
NoConv == [op |-> "none"]
NoTrain == [pc |-> "none"]

(***************************************************************************)
(* Sequential use: constructions and forward calls, one at a time.  Model  *)
(* instances are told apart by their config: forward reads nothing else of *)
(* an instance but its weights, which are symbolic.                        *)
(***************************************************************************)
Init ==
    /\ freqs_cis = None
    /\ setup_calls = 0
    /\ models = {}
    /\ first_init = None
    /\ sess = NoSess
    /\ call = NoCall
    /\ threads = [t \in Threads |-> [pc |-> "idle"]]
    /\ first_test = None
    /\ heap = NoHeap
    /\ conv = NoConv
    /\ train = NoTrain

\* Pico(config, fabric): every layer's Attention and its RoPE are constructed.
Construct(config, fabric) ==
    /\ Cardinality(models \cup {config}) <= MaxModels
    /\ PicoInitOk(config)
    /\ models' = models \cup {config}
    /\ freqs_cis' = PicoInitTable(freqs_cis, config, fabric, config.n_layers)
    /\ setup_calls' = setup_calls
                      + PicoInitSetups(freqs_cis, config, fabric, config.n_layers)
    /\ first_init' = IF PicoInitSetups(freqs_cis, config, fabric, config.n_layers) > 0
                        /\ first_init = None
                     THEN config ELSE first_init
    /\ UNCHANGED <<sess, call, threads, first_test, heap, conv, train>>

\* The caller starts a generation loop on a model, holding no cache.
Begin(config) ==
    /\ config \in models
    /\ sess' = [m |-> config, fed |-> <<>>, cache |-> None]
    /\ call' = NoCall
    /\ UNCHANGED <<freqs_cis, setup_calls, models, first_init, threads, first_test, heap, conv, train>>

\* The cache a caller keeps from what a forward call returned.
Returned(hf, r) == IF hf THEN r.output.past_key_values ELSE r.cached_key_values

\* One forward call of the loop, given the cache the loop holds; through the
\* PicoHF wrapper when hf.  With use_cache the caller keeps the returned cache.
Step(hf, input_ids, use_cache) ==
    /\ sess.m # None
    /\ Len(sess.fed) + Len(input_ids) <= MaxLen
    /\ \E r \in {IF hf
                 THEN PicoHFForward(sess.m, input_ids, sess.cache, use_cache, freqs_cis)
                 ELSE PicoForward(sess.m, input_ids, sess.cache, use_cache, freqs_cis)} :
           /\ call' = [op |-> IF hf THEN "hf_forward" ELSE "forward", m |-> sess.m,
                       input_ids |-> input_ids, past_key_values |-> sess.cache,
                       use_cache |-> use_cache, fed |-> sess.fed, ret |-> r]
           /\ sess' = IF r.status = "ok" /\ use_cache
                      THEN [sess EXCEPT !.fed = @ \o input_ids,
                                        !.cache = Returned(hf, r)]
                      ELSE sess
    /\ UNCHANGED <<freqs_cis, setup_calls, models, first_init, threads, first_test, heap, conv, train>>

\* The caller drops the last result.
Drop ==
    /\ call # NoCall
    /\ sess' = NoSess
    /\ call' = NoCall
    /\ UNCHANGED <<freqs_cis, setup_calls, models, first_init, threads, first_test, heap, conv, train>>

\* A forward call with a cache the caller made up, by a caller that holds no
\* earlier result (the call reads nothing of it).
Probe(config, input_ids, past_key_values, use_cache) ==
    /\ config \in models
    /\ call = NoCall
    /\ call' = [op |-> "forward", m |-> config,
                input_ids |-> input_ids, past_key_values |-> past_key_values,
                use_cache |-> use_cache, fed |-> <<>>,
                ret |-> PicoForward(config, input_ids, past_key_values, use_cache,
                                    freqs_cis)]
    /\ sess' = NoSess
    /\ UNCHANGED <<freqs_cis, setup_calls, models, first_init, threads, first_test, heap, conv, train>>

\* Generation loops on the native models.
Next ==
    \/ \E config \in Configs, fabric \in BOOLEAN : Construct(config, fabric)
    \/ \E config \in Configs : Begin(config)
    \/ \E input_ids \in TokenSeqs(MaxLen), use_cache \in BOOLEAN :
          Step(FALSE, input_ids, use_cache)

Spec == Init /\ [][Next]_vars

\* Generation loops through the PicoHF wrapper, whose Pico is built without a fabric.
NextHF ==
    \/ \E config \in Configs : Construct(config, FALSE)
    \/ \E config \in Configs : Begin(config)
    \/ \E input_ids \in TokenSeqs(MaxLen), use_cache \in BOOLEAN :
          Step(TRUE, input_ids, use_cache)

SpecHF == Init /\ [][NextHF]_vars

\* Single forward calls with caches of any per-layer lengths.
NextProbe ==
    \/ \E config \in Configs, fabric \in BOOLEAN : Construct(config, fabric)
    \/ \E config \in Configs, input_ids \in TokenSeqs(Min(2, MaxLen)),
          use_cache \in BOOLEAN :
          \E past_key_values \in CraftedCaches(config) :
             Probe(config, input_ids, past_key_values, use_cache)
    \/ Drop

SpecProbe == Init /\ [][NextProbe]_vars

(***************************************************************************)
(* Caches by reference: the caller keeps every cache it was returned and   *)
(* may pass any of them again.  heap.tensor is the store of key and value  *)
(* tensors (a reference is an index), heap.held the caches the caller      *)
(* holds: per layer a pair of references.                                  *)
(***************************************************************************)
\* The contents of the tensors a cache refers to.
Deref(tensor, refs) ==
    IF refs = None THEN None
    ELSE [idx \in 1..Len(refs) |-> <<tensor[refs[idx][1]], tensor[refs[idx][2]]>>]

\* A concatenation written into its first argument, which is returned.
TorchCatInPlace(tensor, ref, new) ==
    [tensor |-> [tensor EXCEPT ![ref] = AttentionConcat(@, new)], out |-> ref]

\* torch.cat([past, new], dim=1) on the store: the result is a new tensor, the
\* arguments are left as they are.
TorchCat(tensor, ref, new) ==
    [tensor |-> Append(tensor, AttentionConcat(tensor[ref], new)),
     out |-> Len(tensor) + 1]

\* The keys and values of the new tokens, per layer: what each layer's attention
\* computes before it concatenates.
NewKeyValues(config, input_ids, past_key_values, table) ==
    Bind(PicoForward(config, input_ids, past_key_values, TRUE, table), LAMBDA full :
    [idx \in 1..Len(full.cached_key_values) |->
        [c \in 1..2 |->
            SubSeq(full.cached_key_values[idx][c],
                   Len(full.cached_key_values[idx][c]) - Len(input_ids) + 1,
                   Len(full.cached_key_values[idx][c]))]])

\* The store after the layers from idx on have run, and the references each layer
\* returns as its cache.  Without a cache the rotated keys and the values are new
\* tensors themselves.
RECURSIVE HeapRunLayers(_, _, _, _, _)
HeapRunLayers(tensor, refs, new, idx, acc) ==
    IF idx > Len(new) THEN [tensor |-> tensor, refs |-> acc]
    ELSE IF refs = None
    THEN HeapRunLayers(tensor \o <<new[idx][1], new[idx][2]>>, refs, new, idx + 1,
                       Append(acc, <<Len(tensor) + 1, Len(tensor) + 2>>))
    ELSE
    Bind(TorchCat(tensor, refs[idx][1], new[idx][1]), LAMBDA k :
    Bind(TorchCat(k.tensor, refs[idx][2], new[idx][2]), LAMBDA v :
    HeapRunLayers(v.tensor, refs, new, idx + 1, Append(acc, <<k.out, v.out>>))))

\* Without use_cache nothing refers to the tensors the call made: the store keeps
\* the tensors it had.
Retain(tensor, n, use_cache) == IF use_cache THEN tensor ELSE SubSeq(tensor, 1, n)

\* A forward call on model config with the held cache i (0: no cache).  With
\* use_cache the caller also keeps the returned cache; snap is its contents as
\* returned.
HeapCall(config, i, input_ids, use_cache) ==
    /\ config \in models
    /\ i \in 0..Len(heap.held)
    /\ i > 0 => heap.held[i].m = config
    /\ use_cache => Len(heap.held) < MaxHeld
    /\ \E refs \in {IF i = 0 THEN None ELSE heap.held[i].refs},
          fed \in {IF i = 0 THEN <<>> ELSE heap.held[i].fed} :
       /\ Len(fed) + Len(input_ids) <= MaxLen
       /\ \E r \in {PicoForward(config, input_ids, Deref(heap.tensor, refs), use_cache,
                                freqs_cis)} :
          /\ call' = [op |-> "forward", m |-> config, input_ids |-> input_ids,
                      past_key_values |-> Deref(heap.tensor, refs),
                      use_cache |-> use_cache, fed |-> fed, ret |-> r, ref |-> i]
          /\ IF r.status # "ok"
             THEN heap' = heap
             ELSE \E h \in {HeapRunLayers(heap.tensor, refs,
                                NewKeyValues(config, input_ids,
                                             Deref(heap.tensor, refs), freqs_cis),
                                1, <<>>)} :
                  heap' = [tensor |-> Retain(h.tensor, Len(heap.tensor), use_cache),
                           held |-> IF use_cache
                                    THEN Append(heap.held,
                                                [m |-> config, fed |-> fed \o input_ids,
                                                 refs |-> h.refs,
                                                 snap |-> r.cached_key_values])
                                    ELSE heap.held]
    /\ UNCHANGED <<freqs_cis, setup_calls, models, first_init, sess, threads,
                   first_test, conv, train>>

\* The caller lets go of every cache it holds.
HeapRelease ==
    /\ heap # NoHeap
    /\ heap' = NoHeap
    /\ call' = NoCall
    /\ UNCHANGED <<freqs_cis, setup_calls, models, first_init, sess, threads,
                   first_test, conv, train>>

\* Forward calls on the caches held, for the models whose forward can succeed.
NextHeap ==
    \/ \E config \in {c \in Configs : ValidConfig(c)}, fabric \in BOOLEAN :
          Construct(config, fabric)
    \/ \E config \in Configs, i \in 0..MaxHeld, input_ids \in ZeroSeqs(MaxLen),
          use_cache \in BOOLEAN : HeapCall(config, i, input_ids, use_cache)
    \/ HeapRelease

SpecHeap == Init /\ [][NextHeap]_vars

(***************************************************************************)
(* Config conversion: ModelConfig -> PicoHFConfig.  A dict is a function   *)
(* from keys to values; a config object has a class and its attributes.    *)
(***************************************************************************)
\* The fields of the native config the model reads.
ModelConfigFields ==
    {"d_model", "n_layers", "attention_n_heads", "attention_n_kv_heads",
     "max_seq_len", "vocab_size", "norm_eps", "position_emb_theta",
     "activation_hidden_dim", "batch_size"}

Values == {1, 2}

EmptyDict == [k \in {} |-> 0]

\* The dicts with keys among keys and values among vals.
Dicts(keys, vals) == UNION {[S -> vals] : S \in SUBSET keys}

NativeConfigs == {[cls |-> "ModelConfig", fields |-> f] : f \in [ModelConfigFields -> Values]}

\* dataclasses.asdict of a config whose fields are scalars.
Asdict(model_config) == [f \in DOMAIN model_config.fields |-> model_config.fields[f]]

\* The attributes every PretrainedConfig has.
BaseAttrs == [return_dict |-> 1]

\* cls(**kwargs): PretrainedConfig.__init__ keeps every keyword argument as an
\* attribute, over its defaults.
PretrainedConfigInit(kwargs) == [cls |-> "PicoHFConfig", attrs |-> kwargs @@ BaseAttrs]

\* A loop that sets only the attributes the object already has.
SetAttrsKnownOnly(obj, dict) ==
    [obj EXCEPT !.attrs = [k \in DOMAIN dict \cap DOMAIN obj.attrs |-> dict[k]] @@ @]

\* for key, value in config_dict.items(): setattr(pico_config, key, value)
SetAttrs(obj, dict) == [obj EXCEPT !.attrs = dict @@ @]

\* PicoHFConfig.from_dict
FromDict(config_dict, kwargs) ==
    LET pico_config == SetAttrs(PretrainedConfigInit(kwargs), config_dict)
        return_unused_kwargs ==
            IF "return_unused_kwargs" \in DOMAIN kwargs
            THEN kwargs["return_unused_kwargs"] # 0 ELSE FALSE
        rest == DOMAIN kwargs \ {"return_unused_kwargs"}
        unused_kwargs ==
            [k \in {k \in rest : k \notin DOMAIN pico_config.attrs} |-> kwargs[k]]
    IN  IF return_unused_kwargs
        THEN [config |-> pico_config, unused_kwargs |-> unused_kwargs]
        ELSE [config |-> pico_config]

\* PicoHFConfig.from_dataclass
FromDataclass(model_config) == FromDict(Asdict(model_config), EmptyDict)

\* The keyword arguments a caller of from_dict may give.
Kwargs ==
    {a @@ b : a \in Dicts({"d_model", "return_dict"}, Values),
              b \in Dicts({"return_unused_kwargs"}, {0, 1})}

ConvFromDataclass(model_config) ==
    /\ conv = NoConv
    /\ conv' = [op |-> "from_dataclass", model_config |-> model_config,
                ret |-> FromDataclass(model_config)]
    /\ UNCHANGED <<freqs_cis, setup_calls, models, first_init, sess, call, threads,
                   first_test, heap, train>>

ConvFromDict(config_dict, kwargs) ==
    /\ conv = NoConv
    /\ conv' = [op |-> "from_dict", config_dict |-> config_dict, kwargs |-> kwargs,
                ret |-> FromDict(config_dict, kwargs)]
    /\ UNCHANGED <<freqs_cis, setup_calls, models, first_init, sess, call, threads,
                   first_test, heap, train>>

(***************************************************************************)
(* Model conversion: Pico -> PicoHF.  A parameter name is the sequence of  *)
(* its dotted components; store maps each parameter tensor, named by the   *)
(* object that owns it and its name there, to its shape and value.         *)
(***************************************************************************)
\* config.<f> on either kind of config.
Get(config, f) == IF config.cls = "ModelConfig" THEN config.fields[f] ELSE config.attrs[f]

LayerName(i) == CASE i = 0 -> "0" [] i = 1 -> "1" [] i = 2 -> "2" [] OTHER -> "3"

\* The parameters of one PicoBlock.
BlockParams ==
    {<<"attention", "q_proj", "weight">>, <<"attention", "k_proj", "weight">>,
     <<"attention", "v_proj", "weight">>, <<"attention", "o_proj", "weight">>,
     <<"swiglu", "w_0", "weight">>, <<"swiglu", "w_1", "weight">>,
     <<"swiglu", "w_2", "weight">>,
     <<"attention_norm", "weight">>, <<"swiglu_norm", "weight">>}

\* The parameters of a Pico built from config.
ParamNames(config) ==
    {<<"embedding_proj", "weight">>, <<"output_norm", "weight">>,
     <<"de_embedding_proj", "weight">>}
    \cup {<<"layers", LayerName(i)>> \o b :
             i \in 0..(Get(config, "n_layers") - 1), b \in BlockParams}

\* The shape of parameter n, a weight of module n[Len(n) - 1].
ParamShape(config, n) ==
    LET mod == n[Len(n) - 1]
        d_model == Get(config, "d_model")
        head_dim == d_model \div Get(config, "attention_n_heads")
        q_dim == Get(config, "attention_n_heads") * head_dim
        kv_dim == Get(config, "attention_n_kv_heads") * head_dim
        hidden == Get(config, "activation_hidden_dim")
    IN  CASE mod \in {"embedding_proj", "de_embedding_proj"} ->
                <<Get(config, "vocab_size"), d_model>>
          [] mod \in {"output_norm", "attention_norm", "swiglu_norm"} -> <<d_model>>
          [] mod = "q_proj" -> <<q_dim, d_model>>
          [] mod \in {"k_proj", "v_proj"} -> <<kv_dim, d_model>>
          [] mod = "o_proj" -> <<d_model, q_dim>>
          [] mod \in {"w_0", "w_1"} -> <<hidden, d_model>>
          [] mod = "w_2" -> <<d_model, hidden>>

\* Pico(config) owned by obj: its parameters, and the tensors they are, holding
\* value(n).
PicoInit(obj, config, value(_)) ==
    [model |-> [config |-> config,
                params |-> [n \in ParamNames(config) |-> [obj |-> obj, n |-> n]]],
     store |-> [id \in {[obj |-> obj, n |-> n] : n \in ParamNames(config)} |->
                   [shape |-> ParamShape(config, id.n), value |-> value(id.n)]]]

\* A state dict whose keys carry no prefix.
StateDictNoPrefix(params, prefix) == params

\* state_dict(prefix=...): the parameter tensors themselves under prefixed names.
StateDict(params, prefix) ==
    [key \in {prefix \o n : n \in DOMAIN params} |->
        params[SubSeq(key, Len(prefix) + 1, Len(key))]]

\* PicoHF(config): its one submodule is self.pico.
PicoHFInit(config) ==
    LET pico == PicoInit("hf", config, LAMBDA n : [init |-> n])
    IN  [model |-> [config |-> config, pico |-> pico.model], store |-> pico.store]

\* The parameters of a PicoHF by their names in it.
PicoHFParams(hf_model) == StateDict(hf_model.pico.params, <<"pico">>)

\* load_state_dict(state_dict), strict: the keys must be the module's and the shapes
\* equal; the values are then copied into the module's own tensors.
LoadStateDict(store, params, state_dict) ==
    IF \/ DOMAIN params # DOMAIN state_dict
       \/ \E key \in DOMAIN params :
             store[params[key]].shape # store[state_dict[key]].shape
    THEN [status |-> "error"]
    ELSE [status |-> "ok",
          store |-> [id \in DOMAIN store |->
                        IF \E key \in DOMAIN params : params[key] = id
                        THEN LET key == CHOOSE key \in DOMAIN params : params[key] = id
                             IN  [store[id] EXCEPT !.value = store[state_dict[key]].value]
                        ELSE store[id]]]

\* Pico.convert_to_hf_model on a model whose tensors are in store.
ConvertToHfModel(self, store) ==
    LET hf_config == FromDataclass(self.config).config
        hf == PicoHFInit(hf_config)
        loaded == LoadStateDict(store @@ hf.store, PicoHFParams(hf.model),
                                StateDict(self.params, <<"pico">>))
    IN  IF loaded.status # "ok" THEN loaded
        ELSE [status |-> "ok", hf_model |-> hf.model, self |-> self,
              store |-> loaded.store]

\* The trained weights a native model may hold.
Seeds == {1, 2}

\* convert_to_hf_model on a native model with the weights of seed.
ConvConvert(model_config, seed) ==
    /\ conv = NoConv
    /\ \E native \in {PicoInit("native", model_config,
                               LAMBDA n : [seed |-> seed, n |-> n])} :
          conv' = [op |-> "convert", self |-> native.model, store |-> native.store,
                   ret |-> ConvertToHfModel(native.model, native.store)]
    /\ UNCHANGED <<freqs_cis, setup_calls, models, first_init, sess, call, threads,
                   first_test, heap, train>>

\* The caller drops the result of the last conversion.
ConvForget ==
    /\ conv # NoConv
    /\ conv' = NoConv
    /\ UNCHANGED <<freqs_cis, setup_calls, models, first_init, sess, call, threads,
                   first_test, heap, train>>

\* Conversions, each on arguments that no earlier call has touched.
NextConv ==
    \/ ConvForget
    \/ \E model_config \in NativeConfigs : ConvFromDataclass(model_config)
    \/ \E model_config \in NativeConfigs, seed \in Seeds : ConvConvert(model_config, seed)
    \/ \E config_dict \in Dicts({"d_model", "extra_field"}, Values), kwargs \in Kwargs :
          ConvFromDict(config_dict, kwargs)

SpecConv == Init /\ [][NextConv]_vars

(***************************************************************************)
(* The training loop of train.py.  train holds the loop's locals, the      *)
(* batches the iterator still has, and what the run has done: the steps    *)
(* save_checkpoint was called with, the backward passes since the last     *)
(* optimizer.step(), the optimizer steps, and what the last iteration ran. *)
(***************************************************************************)
TrainConfigs ==
    [training_steps : 1..MaxSteps,
     gradient_accumulation_steps : 1..MaxAccum,
     save_every_n_steps : 1..MaxEvery,
     log_every_n_steps : 1..MaxEvery]

\* An iteration that has run nothing yet.
NoEvents ==
    [accumulate |-> FALSE, backward |-> FALSE, logged |-> FALSE, clipped |-> FALSE,
     stepped |-> FALSE, scheduled |-> FALSE, saved_periodic |-> FALSE,
     saved_final |-> FALSE, backwards |-> 0]

\* Lines 78-102.  A fresh run starts at step 0 and saves checkpoint 0; a resumed
\* run gets train_start_step and its iterator from load_checkpoint: any step up to
\* the last one of the run, and any number of batches left.
TrainStart(config, resume, train_start_step, batches) ==
    /\ train = NoTrain
    /\ ~resume => train_start_step = 0
    /\ train' = [pc |-> "loop", config |-> config, resume |-> resume,
                 train_start_step |-> train_start_step,
                 gradient_step |-> train_start_step,
                 batch_idx |-> train_start_step,
                 left |-> batches,
                 saved |-> IF resume THEN <<>> ELSE <<0>>,
                 backwards |-> 0, optimizer_steps |-> 0,
                 broke |-> FALSE, last |-> NoEvents]
    /\ UNCHANGED <<freqs_cis, setup_calls, models, first_init, sess, call, threads,
                   first_test, heap, conv>>

\* Line 109.
ShouldAccumulateGradients(batch_idx, gradient_accumulation_steps) ==
    (batch_idx + 1) % gradient_accumulation_steps # 0

\* Lines 159-172 at the new gradient_step: the steps save_checkpoint is called with.
Checkpoints(gradient_step, config) ==
    (IF gradient_step % config.save_every_n_steps = 0 THEN <<gradient_step>> ELSE <<>>)
    \o (IF gradient_step = config.training_steps
           /\ gradient_step % config.save_every_n_steps # 0
        THEN <<gradient_step>> ELSE <<>>)

\* One iteration of the loop, lines 104-173, on the iterator's next batch.
TrainBatch ==
    /\ train.pc = "loop"
    /\ train.left > 0
    /\ IF ShouldAccumulateGradients(train.batch_idx,
                                    train.config.gradient_accumulation_steps)
       THEN train' = [train EXCEPT !.batch_idx = @ + 1, !.left = @ - 1,
                                   !.backwards = @ + 1,
                                   !.last = [NoEvents EXCEPT !.accumulate = TRUE,
                                                             !.backward = TRUE,
                                                             !.backwards = train.backwards + 1]]
       ELSE \E gradient_step \in {train.gradient_step + 1} :
            train' = [train EXCEPT
                !.batch_idx = @ + 1, !.left = @ - 1,
                !.backwards = 0,
                !.optimizer_steps = @ + 1,
                !.gradient_step = gradient_step,
                !.saved = @ \o Checkpoints(gradient_step, train.config),
                !.broke = gradient_step = train.config.training_steps,
                !.pc = IF gradient_step = train.config.training_steps
                       THEN "done" ELSE "loop",
                !.last = [accumulate |-> FALSE, backward |-> TRUE,
                          logged |-> train.gradient_step
                                        % train.config.log_every_n_steps = 0,
                          clipped |-> TRUE, stepped |-> TRUE, scheduled |-> TRUE,
                          saved_periodic |->
                              gradient_step % train.config.save_every_n_steps = 0,
                          saved_final |->
                              /\ gradient_step = train.config.training_steps
                              /\ gradient_step % train.config.save_every_n_steps # 0,
                          backwards |-> train.backwards + 1]]
    /\ UNCHANGED <<freqs_cis, setup_calls, models, first_init, sess, call, threads,
                   first_test, heap, conv>>

\* The iterator is exhausted: the for loop ends without the break.
TrainExhausted ==
    /\ train.pc = "loop"
    /\ train.left = 0
    /\ train' = [train EXCEPT !.pc = "done", !.last = NoEvents]
    /\ UNCHANGED <<freqs_cis, setup_calls, models, first_init, sess, call, threads,
                   first_test, heap, conv>>

NextTrain ==
    \/ \E config \in TrainConfigs, resume \in BOOLEAN, batches \in 0..MaxBatches :
          \E train_start_step \in 0..config.training_steps :
             TrainStart(config, resume, train_start_step, batches)
    \/ TrainBatch
    \/ TrainExhausted

SpecTrain == Init /\ [][NextTrain]_vars

(***************************************************************************)
(* Concurrent construction: two threads inside RoPE.__init__               *)
(***************************************************************************)
InitRace ==
    /\ freqs_cis = None
    /\ setup_calls = 0
    /\ models = {}
    /\ first_init = None
    /\ sess = NoSess
    /\ call = NoCall
    /\ threads \in [Threads -> [config : Configs, fabric : BOOLEAN, pc : {"test"},
                                read : {None}]]
    /\ first_test = None
    /\ heap = NoHeap
    /\ conv = NoConv
    /\ train = NoTrain

\* line 130: if RoPE._freqs_cis is None
RaceTest(t) ==
    /\ threads[t].pc = "test"
    /\ threads' = [threads EXCEPT ![t].pc = IF freqs_cis = None THEN "setup" ELSE "done"]
    /\ first_test' = IF freqs_cis = None /\ first_test = None
                     THEN threads[t].config ELSE first_test
    /\ UNCHANGED <<freqs_cis, setup_calls, models, first_init, sess, call, heap, conv, train>>

\* line 131: RoPE._freqs_cis = self._setup_freqs_cis(max_seq_len, self.theta, self.dim)
RaceSetup(t) ==
    /\ threads[t].pc = "setup"
    /\ freqs_cis' = SetupFreqsCis(threads[t].config.max_seq_len,
                                  threads[t].config.position_emb_theta,
                                  RoPEDim(threads[t].config))
    /\ setup_calls' = setup_calls + 1
    /\ first_init' = IF first_init = None THEN threads[t].config ELSE first_init
    /\ threads' = [threads EXCEPT ![t].pc = IF threads[t].fabric THEN "read" ELSE "done"]
    /\ UNCHANGED <<models, sess, call, first_test, heap, conv, train>>

\* line 133, the read of RoPE._freqs_cis
RaceRead(t) ==
    /\ threads[t].pc = "read"
    /\ threads' = [threads EXCEPT ![t].pc = "write", ![t].read = freqs_cis]
    /\ UNCHANGED <<freqs_cis, setup_calls, models, first_init, sess, call, first_test, heap, conv, train>>

\* line 133, the assignment of fabric.to_device(...) to RoPE._freqs_cis
RaceWrite(t) ==
    /\ threads[t].pc = "write"
    /\ freqs_cis' = ToDevice(threads[t].read)
    /\ threads' = [threads EXCEPT ![t].pc = "done", ![t].read = None]
    /\ UNCHANGED <<setup_calls, models, first_init, sess, call, first_test, heap, conv, train>>

NextRace ==
    \E t \in Threads : RaceTest(t) \/ RaceSetup(t) \/ RaceRead(t) \/ RaceWrite(t)

SpecRace == InitRace /\ [][NextRace]_vars

(***************************************************************************)
(* Properties                                                              *)
(***************************************************************************)
\* The last call's tokens preceded by the tokens its cache stands for, run at once
\* without a cache.
FullRun == PicoForward(call.m, call.fed \o call.input_ids, None, FALSE, freqs_cis)

\* C1: a forward call given the cache of the loop's earlier calls ends as the run
\* of the whole sequence without a cache ends, and when they succeed the logits of
\* each new token equal the full run's logits at the token's absolute position: at
\* every layer the same rotation row and the same attended (key, value) pairs.
CacheEquivalence ==
    (call.op = "forward" /\ call.fed # <<>>) =>
        /\ call.ret.status = FullRun.status
        /\ call.ret.status = "ok" =>
              \A t \in 1..Len(call.input_ids) :
                 call.ret.logits[t] = FullRun.logits[Len(call.fed) + t]

\* A suffix of several tokens (a mask is built) was run with the cache of a prefix.
CacheEquivalenceWitness ==
    /\ call.op = "forward" /\ call.ret.status = "ok"
    /\ call.fed # <<>> /\ Len(call.input_ids) > 1
    /\ call.past_key_values # None

\* The token sequences that agree with ids up to index t.
AgreeUpTo(ids, t) ==
    {alt \in [1..Len(ids) -> Tokens] : \A i \in 1..t : alt[i] = ids[i]}

\* C2: the logits at new-token index t of a forward call are those of the same call
\* on any input that differs only at indices after t.
CausalMasking ==
    (call.op = "forward" /\ call.ret.status = "ok") =>
        \A t \in 1..Len(call.input_ids) :
           \A alt \in AgreeUpTo(call.input_ids, t) :
              LET r == PicoForward(call.m, alt, call.past_key_values, call.use_cache,
                                   freqs_cis)
              IN  r.status = "ok" /\ r.logits[t] = call.ret.logits[t]

\* Several new tokens were run on top of a cache.
CausalMaskingWitness ==
    /\ call.op = "forward" /\ call.ret.status = "ok"
    /\ Len(call.input_ids) >= 2 /\ call.past_key_values # None

\* C3: the cache a loop holds has one entry per layer, in layer order, and every
\* layer's keys and values are as long as the tokens fed so far.
CacheShape ==
    sess.cache # None =>
        /\ Len(sess.cache) = sess.m.n_layers
        /\ \A idx \in 1..Len(sess.cache) :
              /\ Len(sess.cache[idx][1]) = Len(sess.fed)
              /\ Len(sess.cache[idx][2]) = Len(sess.fed)
              /\ \A j \in 1..Len(sess.cache[idx][1]) :
                    /\ sess.cache[idx][1][j].layer = idx
                    /\ sess.cache[idx][2][j].layer = idx

\* The loop holds the cache of a call that was itself given a cache.
CacheShapeWitness ==
    /\ call.op = "forward" /\ call.ret.status = "ok" /\ call.use_cache
    /\ call.past_key_values # None
    /\ sess.cache = call.ret.cached_key_values
    /\ Len(sess.fed) = Len(call.fed) + Len(call.input_ids)

\* The per-layer cached key lengths of the cache given to the last call.
PastLens == {Len(call.past_key_values[idx][1]) : idx \in 1..Len(call.past_key_values)}

\* C4: a forward call whose cache has two layers of different lengths fails.
MismatchedCacheFails ==
    (call.op = "forward" /\ call.past_key_values # None /\ Cardinality(PastLens) > 1)
        => call.ret.status = "error"

\* C5: a model is constructed only from a config with integral head-group ratio
\* and head dimension.
ConfigErrorsAtConstruction == \A config \in models : ValidConfig(config)

\* C6: a forward call whose start_pos + seq_len exceeds its model's max_seq_len
\* fails.
RotaryRangeChecked ==
    (call.op = "forward"
     /\ PicoStartPos(call.past_key_values) + Len(call.input_ids) > call.m.max_seq_len)
        => call.ret.status = "error"

TableOf(config) ==
    SetupFreqsCis(config.max_seq_len, config.position_emb_theta, RoPEDim(config))

\* C7: the table is computed once, by the first construction; it stays the first
\* constructor's table, and the keys every model caches were rotated with its rows.
TableComputedOnce ==
    /\ setup_calls <= 1
    /\ (models = {}) = (freqs_cis = None)
    /\ models # {} => first_init \in models /\ freqs_cis = TableOf(first_init)
    /\ sess.cache # None =>
          \A idx \in 1..Len(sess.cache) : \A j \in 1..Len(sess.cache[idx][1]) :
             /\ sess.cache[idx][1][j].rot = freqs_cis.rows[j]
             /\ sess.cache[idx][1][j].rot.theta = first_init.position_emb_theta

\* A model with another rotary configuration than the first one has run forward.
TableComputedOnceWitness ==
    /\ sess.cache # None
    /\ sess.m # first_init
    /\ TableOf(sess.m) # TableOf(first_init)

RaceDone == \A t \in Threads : threads[t].pc = "done"

\* C8: after both constructors have finished, the installed table is the one of the
\* configuration that initialized first: the first to find the table unset, or the
\* first to assign it.
RaceFirstWins ==
    RaceDone => freqs_cis \in {TableOf(first_test), TableOf(first_init)}

\* C9: the output of PicoHF.forward has a past_key_values field exactly with
\* use_cache, and always logits.
PortableOutputFields ==
    (call.op = "hf_forward" /\ call.ret.status = "ok") =>
        /\ ("past_key_values" \in DOMAIN call.ret.output) = call.use_cache
        /\ "logits" \in DOMAIN call.ret.output
        /\ call.ret.output.logits
              = PicoForward(call.m, call.input_ids, call.past_key_values,
                            call.use_cache, freqs_cis).logits
        /\ call.use_cache => call.ret.output.past_key_values # None

\* The wrapper was given a cache and asked for none back.
PortableOutputFieldsWitness ==
    /\ call.op = "hf_forward" /\ call.ret.status = "ok"
    /\ ~call.use_cache /\ call.past_key_values # None

\* C10: without use_cache every layer returns None as its cache; with use_cache it
\* returns the keys and values, cached ones included.
LayerCacheResult ==
    (call.op = "forward" /\ call.ret.status = "ok") =>
        \A idx \in 1..Len(call.ret.layer_returned) :
           IF call.use_cache
           THEN /\ Len(call.ret.layer_returned[idx]) = 2
                /\ Len(call.ret.layer_returned[idx][1])
                      = Len(call.fed) + Len(call.input_ids)
                /\ Len(call.ret.layer_returned[idx][2])
                      = Len(call.fed) + Len(call.input_ids)
           ELSE call.ret.layer_returned[idx] = None

\* The references of a held cache.
RefsOf(h) == UNION {{h.refs[idx][1], h.refs[idx][2]} : idx \in 1..Len(h.refs)}

\* C11: every cache the caller holds has the contents it was returned with, so the
\* cache given to the last call is as it was before the call and the same call on
\* it again gives the same result; caches returned by different calls share no
\* tensor.
CacheNotMutated ==
    /\ \A i \in 1..Len(heap.held) :
          Deref(heap.tensor, heap.held[i].refs) = heap.held[i].snap
    /\ (call.op = "forward" /\ "ref" \in DOMAIN call /\ call.ref > 0) =>
          /\ Deref(heap.tensor, heap.held[call.ref].refs) = call.past_key_values
          /\ PicoForward(call.m, call.input_ids,
                         Deref(heap.tensor, heap.held[call.ref].refs),
                         call.use_cache, freqs_cis) = call.ret
    /\ \A i, j \in 1..Len(heap.held) :
          i # j => RefsOf(heap.held[i]) \cap RefsOf(heap.held[j]) = {}

\* A held cache was passed to a successful call that returned another cache, which
\* the caller holds as well.
CacheNotMutatedWitness ==
    /\ call.op = "forward" /\ "ref" \in DOMAIN call /\ call.ref > 0
    /\ call.ret.status = "ok" /\ call.use_cache
    /\ Len(heap.held) = MaxHeld
    /\ heap.held[MaxHeld].fed = call.fed \o call.input_ids

\* C12: from_dataclass gives a PicoHFConfig on which every field of the native
\* config is an attribute with the native value; from_dict applies every entry of
\* its dict, keys the base class does not know included, over any keyword argument
\* of the same name, and returns the unused keyword arguments only when asked.
ConfigRoundTrip ==
    /\ conv.op = "from_dataclass" =>
          /\ conv.ret.config.cls = "PicoHFConfig"
          /\ \A f \in ModelConfigFields :
                /\ f \in DOMAIN conv.ret.config.attrs
                /\ conv.ret.config.attrs[f] = conv.model_config.fields[f]
    /\ conv.op = "from_dict" =>
          /\ \A k \in DOMAIN conv.config_dict :
                /\ k \in DOMAIN conv.ret.config.attrs
                /\ conv.ret.config.attrs[k] = conv.config_dict[k]
          /\ \A k \in DOMAIN conv.kwargs \ DOMAIN conv.config_dict :
                conv.ret.config.attrs[k] = conv.kwargs[k]
          /\ ("unused_kwargs" \in DOMAIN conv.ret)
                = ("return_unused_kwargs" \in DOMAIN conv.kwargs
                   /\ conv.kwargs["return_unused_kwargs"] # 0)

\* from_dict was given a key the base class does not know and a key that a keyword
\* argument gives another value.
ConfigRoundTripWitness ==
    /\ conv.op = "from_dict"
    /\ "extra_field" \in DOMAIN conv.config_dict
    /\ "d_model" \in DOMAIN conv.config_dict \cap DOMAIN conv.kwargs
    /\ conv.config_dict["d_model"] # conv.kwargs["d_model"]

\* C13: the conversion succeeds; the parameter names of the portable model are the
\* native names under "pico", each such parameter is a tensor of the portable
\* model's own with the value of the native parameter, and the native model's
\* parameters, their values and its config are as before.
ConversionExactCopy ==
    conv.op = "convert" =>
        /\ conv.ret.status = "ok"
        /\ DOMAIN PicoHFParams(conv.ret.hf_model)
              = {<<"pico">> \o n : n \in DOMAIN conv.self.params}
        /\ \A n \in DOMAIN conv.self.params :
              /\ conv.ret.store[PicoHFParams(conv.ret.hf_model)[<<"pico">> \o n]]
                    = conv.store[conv.self.params[n]]
              /\ PicoHFParams(conv.ret.hf_model)[<<"pico">> \o n] # conv.self.params[n]
              /\ conv.ret.store[conv.self.params[n]] = conv.store[conv.self.params[n]]
        /\ conv.ret.self = conv.self

\* A native model of two layers was converted.
ConversionExactCopyWitness ==
    /\ conv.op = "convert" /\ conv.ret.status = "ok"
    /\ conv.self.config.fields["n_layers"] = 2
    /\ <<"pico", "layers", "1", "attention", "q_proj", "weight">>
          \in DOMAIN PicoHFParams(conv.ret.hf_model)

\* C14: no step (a construction, the start of a loop, a forward call with or
\* without a cache) changes the result that a forward call without a cache gives
\* on any existing model for any input: two such calls agree, whatever happens
\* between them.
Determinism ==
    [][\/ freqs_cis' = freqs_cis
       \/ \A m \in models, input_ids \in TokenSeqs(MaxLen) :
             PicoForward(m, input_ids, None, FALSE, freqs_cis')
                = PicoForward(m, input_ids, None, FALSE, freqs_cis)]_vars

\* A forward call without a cache on a model that was constructed after another
\* model had installed another table than its own.
DeterminismWitness ==
    /\ call.op = "forward" /\ ~call.use_cache /\ call.past_key_values = None
    /\ call.ret.status = "ok"
    /\ Cardinality(models) > 1
    /\ TableOf(call.m) # freqs_cis

SharedStartPos ==
    (call.op = "forward" /\ call.ret.status = "ok") =>
        /\ call.ret.start_pos = IF call.past_key_values = None THEN 0
                                ELSE Len(call.past_key_values[1][1])
        /\ \A idx \in 1..Len(call.ret.layer_start_pos) :
              call.ret.layer_start_pos[idx] = call.ret.start_pos

\* C17: in the cache a loop holds, at every layer the key at index j was rotated
\* once, with the table row of position j (counted from 0), and the values carry
\* no rotation; a call given a cache returns the cached keys and values as they
\* were, followed by the new ones.
AbsoluteRotation ==
    /\ sess.cache # None =>
          \A idx \in 1..Len(sess.cache) :
             /\ \A j \in 1..Len(sess.cache[idx][1]) :
                   /\ sess.cache[idx][1][j].rot = freqs_cis.rows[j]
                   /\ sess.cache[idx][1][j].rot.pos = j - 1
                   /\ "rot" \notin DOMAIN sess.cache[idx][1][j].x
             /\ \A j \in 1..Len(sess.cache[idx][2]) :
                   "rot" \notin DOMAIN sess.cache[idx][2][j]
    /\ (call.op = "forward" /\ call.ret.status = "ok" /\ call.use_cache
        /\ call.past_key_values # None) =>
          \A idx \in 1..Len(call.past_key_values) : \A c \in 1..2 :
             SubSeq(call.ret.cached_key_values[idx][c], 1,
                    Len(call.past_key_values[idx][c]))
                = call.past_key_values[idx][c]

\* The loop holds the cache of a call whose layers rotated from a position after 0.
AbsoluteRotationWitness ==
    /\ call.op = "forward" /\ call.ret.status = "ok" /\ call.use_cache
    /\ sess.cache = call.ret.cached_key_values
    /\ \A idx \in 1..Len(call.ret.layer_start_pos) : call.ret.layer_start_pos[idx] > 0

\* The number of save_checkpoint calls of the run for step n.
SavedCount(n) == Cardinality({i \in 1..Len(train.saved) : train.saved[i] = n})

\* C18: gradient_step never exceeds training_steps; the loop is over once an
\* optimizer step has brought gradient_step to training_steps, and the run has
\* then saved the checkpoint of that step exactly once.
TrainStepBound ==
    train.pc # "none" =>
        /\ train.gradient_step <= train.config.training_steps
        /\ (train.last.stepped /\ train.gradient_step = train.config.training_steps)
              => train.pc = "done"
        /\ train.broke =>
              /\ SavedCount(train.config.training_steps) = 1
              /\ ~(train.last.saved_periodic /\ train.last.saved_final)

\* C19: an optimizer step comes after exactly gradient_accumulation_steps backward
\* passes since the one before it (or the start of the loop); an iteration that only
\* accumulates runs nothing but the backward pass; gradient_step has grown by one
\* per optimizer step.
GradientAccumulationOrder ==
    train.pc # "none" =>
        /\ train.last.stepped =>
              train.last.backwards = train.config.gradient_accumulation_steps
        /\ train.last.accumulate =>
              ~(\/ train.last.logged \/ train.last.clipped \/ train.last.stepped
                \/ train.last.scheduled \/ train.last.saved_periodic
                \/ train.last.saved_final)
        /\ train.last.stepped =>
              /\ train.last.clipped /\ train.last.scheduled /\ train.last.backward
        /\ train.gradient_step = train.train_start_step + train.optimizer_steps

====
